---- MODULE Spec2Model ----
(***************************************************************************)
(* Level Blueprint Backend: the POST /api/level-blueprint handler of       *)
(* src/server.js (src/unnamed/part_000 holds the same handler with a       *)
(* shorter template).  A request is validated, its count is normalised, a  *)
(* user prompt is assembled and one call is made to the completion API;    *)
(* the reply is relayed to the client.                                     *)
(*                                                                         *)
(* JavaScript strings are sequences of one-character strings.  The fixed   *)
(* words of the prompt template are single symbols ("Generate"); every     *)
(* character next to an interpolated value is kept as a character of its   *)
(* own, and the values the clients send use only letters that do not occur *)
(* in the template (H I J O Q R W X Y Z), so that "the prompt contains v"  *)
(* is decided exactly.                                                     *)
(***************************************************************************)
EXTENDS Integers, Sequences, FiniteSets, TLC

\* ---------------------------------------------------------------- bounds
NumRequests == 2
MaxDeviations == 2
MaxStrLen == 2
MaxCountInput == 16
MaxChoices == 2

\* ------------------------------------------------------- JavaScript values
\* One record shape for every JSON value a request body or an upstream
\* envelope can carry.  For a number, neg/i/s/e are its sign, integer part,
\* fraction digits and (for values of 1e21 and more) decimal exponent.
JSVal(t, b, s, neg, i, e) == [t |-> t, b |-> b, s |-> s, neg |-> neg, i |-> i, e |-> e]

Undefined == JSVal("undefined", FALSE, <<>>, FALSE, 0, 0)

Null == JSVal("null", FALSE, <<>>, FALSE, 0, 0)

Bool(b) == JSVal("boolean", b, <<>>, FALSE, 0, 0)

Str(s) == JSVal("string", FALSE, s, FALSE, 0, 0)

Num(k) == JSVal("number", FALSE, <<>>, k < 0, IF k < 0 THEN -k ELSE k, 0)

Frac(neg, i, f) == JSVal("number", FALSE, f, neg, i, 0)

Big(i, e) == JSVal("number", FALSE, <<>>, FALSE, i, e)

Digits == <<"0", "1", "2", "3", "4", "5", "6", "7", "8", "9">>

IsDigit(c) == \E d \in 1..10 : Digits[d] = c

DigitVal(c) == (CHOOSE d \in 1..10 : Digits[d] = c) - 1

WhiteSpace == {" ", "\n", "\t"}

\* ToBoolean, as applied by ! and || and &&
Truthy(v) ==
  CASE v.t = "undefined" -> FALSE
    [] v.t = "null" -> FALSE
    [] v.t = "boolean" -> v.b
    [] v.t = "string" -> v.s # <<>>
    [] v.t = "number" -> v.i # 0 \/ (\E k \in 1..Len(v.s) : v.s[k] # "0")

RECURSIVE NatToString(_)
NatToString(n) ==
  IF n < 10 THEN <<Digits[n + 1]>>
  ELSE NatToString(n \div 10) \o <<Digits[(n % 10) + 1]>>

\* Number::toString for the numbers of the model
NumberToString(v) ==
  IF v.e > 0 THEN NatToString(v.i) \o <<"e", "+">> \o NatToString(v.e)
  ELSE (IF v.neg /\ Truthy(v) THEN <<"-">> ELSE <<>>)
       \o NatToString(v.i)
       \o (IF v.s # <<>> THEN <<".">> \o v.s ELSE <<>>)

\* ToString, as applied by template literals and by parseInt
JSToString(v) ==
  CASE v.t = "undefined" -> <<"u", "n", "d", "e", "f", "i", "n", "e", "d">>
    [] v.t = "null" -> <<"n", "u", "l", "l">>
    [] v.t = "boolean" -> IF v.b THEN <<"t", "r", "u", "e">> ELSE <<"f", "a", "l", "s", "e">>
    [] v.t = "string" -> v.s
    [] v.t = "number" -> NumberToString(v)

RECURSIVE TrimStart(_)
TrimStart(s) ==
  IF s # <<>> /\ Head(s) \in WhiteSpace THEN TrimStart(Tail(s)) ELSE s

RECURSIVE TrimEnd(_)
TrimEnd(s) ==
  IF s # <<>> /\ s[Len(s)] \in WhiteSpace THEN TrimEnd(SubSeq(s, 1, Len(s) - 1)) ELSE s

\* String.prototype.trim
Trim(s) == TrimEnd(TrimStart(s))

RECURSIVE DigitPrefix(_)
DigitPrefix(s) ==
  IF s # <<>> /\ IsDigit(Head(s)) THEN <<Head(s)>> \o DigitPrefix(Tail(s)) ELSE <<>>

RECURSIVE DigitsValue(_)
DigitsValue(ds) ==
  IF ds = <<>> THEN 0
  ELSE 10 * DigitsValue(SubSeq(ds, 1, Len(ds) - 1)) + DigitVal(ds[Len(ds)])

\* parseInt(v, 10): leading white space is skipped, one sign is read, then
\* the longest run of decimal digits; no digit at all gives NaN.
ParseInt(v) ==
  LET str == TrimStart(JSToString(v))
      signed == str # <<>> /\ Head(str) \in {"-", "+"}
      body == IF signed THEN Tail(str) ELSE str
      ds == DigitPrefix(body)
      mag == DigitsValue(ds)
  IN IF ds = <<>> THEN [nan |-> TRUE, v |-> 0]
     ELSE [nan |-> FALSE, v |-> IF signed /\ Head(str) = "-" THEN -mag ELSE mag]

Min(a, b) == IF a < b THEN a ELSE b

Max(a, b) == IF a > b THEN a ELSE b

\* SafeCount without the upper clamp: Math.max(parseInt(count, 10) || 1, 1)
SafeCountNoClamp(count) ==
  LET p == ParseInt(count)
      orOne == IF p.nan \/ p.v = 0 THEN 1 ELSE p.v
  IN Max(orOne, 1)

\* Math.min(Math.max(parseInt(count, 10) || 1, 1), 10)
SafeCount(count) ==
  LET p == ParseInt(count)
      orOne == IF p.nan \/ p.v = 0 THEN 1 ELSE p.v
  IN Min(Max(orOne, 1), 10)

\* --------------------------------------------------------- prompt assembly
NoneSentinel == <<"n", "o", "n", "e">>

NoNotesSentinel ==
  <<"N", "o", " ", "a", "d", "d", "i", "t", "i", "o", "n", "a", "l", " ",
    "n", "o", "t", "e", "s", ".">>

\* themeKeywords || "none"
ThemeText(themeKeywords) ==
  IF Truthy(themeKeywords) THEN JSToString(themeKeywords) ELSE NoneSentinel

\* NotesText without the fallback: extraNotes ? extraNotes.trim() : "No additional notes."
NotesTextNoSentinel(extraNotes) ==
  IF Truthy(extraNotes) THEN Trim(extraNotes.s) ELSE NoNotesSentinel

\* extraNotes && extraNotes.trim().length > 0 ? extraNotes.trim() : "No additional notes."
\* (for the strings and falsy values, on which .trim() does not throw)
NotesText(extraNotes) ==
  IF Truthy(extraNotes) /\ Len(Trim(extraNotes.s)) > 0 THEN Trim(extraNotes.s)
  ELSE NoNotesSentinel

\* the template literal of the handler, trimmed
UserPrompt(b, safeCount) ==
  Trim(
    <<"\n", "Generate", " ">> \o NatToString(safeCount)
    \o <<" ", "level blueprints.", "\n", "\n", "Game context:", "\n">>
    \o <<"- Genre:", " ">> \o JSToString(b.genre) \o <<"\n">>
    \o <<"- Camera:", " ">> \o JSToString(b.camera) \o <<"\n">>
    \o <<"- Target stage position:", " ">> \o JSToString(b.stagePosition) \o <<"\n">>
    \o <<"- Target playtime:", " ">> \o JSToString(b.playtime) \o <<"\n">>
    \o <<"- Target difficulty:", " ">> \o JSToString(b.difficulty) \o <<"\n">>
    \o <<"- Primary focus:", " ">> \o JSToString(b.focus) \o <<"\n">>
    \o <<"- Theme / setting keywords:", " ">> \o ThemeText(b.themeKeywords) \o <<"\n", "\n">>
    \o <<"Creative direction / extra notes from the designer:", "\n">>
    \o NotesText(b.extraNotes) \o <<"\n", "\n">>
    \o <<"Constraints:", "\n", "- The blueprints should be suitable ... top-down layout of the described level.", "\n">>)

\* AuthorizationHeader with a key held by the server instead of the caller's
AuthorizationHeaderServerKey(apiKey) == <<"Bearer", " ", "s", "k">>

\* "Authorization": `Bearer ${apiKey.trim()}`
AuthorizationHeader(apiKey) == <<"Bearer", " ">> \o Trim(apiKey.s)

\* the fetch of the handler: URL, method, headers and JSON body
CompletionCall(b, safeCount) ==
  [url |-> "https://api.openai.com/v1/chat/completions",
   method |-> "POST",
   authorization |-> AuthorizationHeader(b.apiKey),
   model |-> "gpt-4o-mini",
   system |-> "SYSTEM_PROMPT",
   user |-> UserPrompt(b, safeCount),
   temperatureTenths |-> 7,
   max_tokens |-> 2800]

\* ------------------------------------------------------------- responses
Response(status, keys, error, message, detail, content) ==
  [status |-> status, keys |-> keys, error |-> error, message |-> message,
   detail |-> detail, content |-> content]

NoApiKeyResponse ==
  Response(400, {"error", "message"}, "No API key provided",
           "Please send your OpenAI API key in the 'apiKey' field.", "", Undefined)

MissingFieldsResponse ==
  Response(400, {"error"}, "Missing required fields", "", "", Undefined)

UpstreamErrorResponse(errorText) ==
  Response(500, {"error", "detail"}, "OpenAI API error", "", errorText, Undefined)

ServerErrorResponse(msg) ==
  Response(500, {"error", "detail"}, "Server error", "", msg, Undefined)

ContentResponse(content) ==
  Response(200, {"content"}, "", "", "", content)

\* What a run of the handler ends in: a response sent to the client, a
\* suspension on the upstream call, or an exception that leaves the handler.
Respond(reply) == [kind |-> "respond", reply |-> reply, call |-> <<>>, message |-> ""]

Suspend(call) == [kind |-> "await", reply |-> ContentResponse(Undefined), call |-> <<call>>, message |-> ""]

Escape(msg) == [kind |-> "escape", reply |-> ContentResponse(Undefined), call |-> <<>>, message |-> msg]

\* Catch that lets the error leave the handler
CatchRethrow(msg) == Escape(msg)

\* Catch that issues the upstream call once more
CatchRetry(msg) == Suspend(CompletionCall([apiKey |-> Str(<<"k">>), genre |-> Str(<<"R">>),
  camera |-> Str(<<"Z">>), stagePosition |-> Str(<<"Y">>), playtime |-> Str(<<"X">>),
  difficulty |-> Str(<<"J">>), focus |-> Str(<<"O">>), themeKeywords |-> Undefined,
  count |-> Num(1), extraNotes |-> Undefined], 1))

\* catch (err) { return res.status(500).json({ error: "Server error", detail: err.message }) }
Catch(msg) == Respond(ServerErrorResponse(msg))

RequiredFields ==
  {"genre", "camera", "stagePosition", "playtime", "difficulty", "focus", "count"}

\* MissingRequired without the test of focus
MissingRequiredNoFocus(b) == \E f \in RequiredFields \ {"focus"} : ~Truthy(b[f])

\* MissingRequired without the test of count
MissingRequiredNoCount(b) == \E f \in RequiredFields \ {"count"} : ~Truthy(b[f])

\* !genre || !camera || !stagePosition || !playtime || !difficulty || !focus || !count
MissingRequired(b) == \E f \in RequiredFields : ~Truthy(b[f])

\* What evaluating an expression ends in: a value or a thrown error.
Value(v) == [threw |-> FALSE, message |-> "", value |-> v]

Throw(msg) == [threw |-> TRUE, message |-> msg, value |-> Undefined]

\* CredentialMissing without the trim: !apiKey
CredentialMissingNoTrim(apiKey) == Value(Bool(~Truthy(apiKey)))

\* !apiKey || !apiKey.trim(): a truthy apiKey that is not a string has no
\* trim method, and calling it throws a TypeError
CredentialMissing(apiKey) ==
  IF ~Truthy(apiKey) THEN Value(Bool(TRUE))
  ELSE IF apiKey.t # "string" THEN Throw("apiKey.trim is not a function")
  ELSE Value(Bool(~Truthy(Str(Trim(apiKey.s)))))

\* The handler from its entry to its first await.
HandleRequest(b) ==
  LET noKey == CredentialMissing(b.apiKey)
  IN IF noKey.threw THEN Catch(noKey.message)
     ELSE IF noKey.value.b THEN Respond(NoApiKeyResponse)
     ELSE IF MissingRequired(b) THEN Respond(MissingFieldsResponse)
     ELSE IF Truthy(b.extraNotes) /\ b.extraNotes.t # "string"
          THEN Catch("extraNotes.trim is not a function")
     ELSE Suspend(CompletionCall(b, SafeCount(b.count)))

\* ---------------------------------------------------- upstream envelopes
\* The parsed body of an upstream success: data.k is the kind of JSON value;
\* an object carries its "choices" property, which is absent, null, a string
\* or an array of choices; a choice is null, a string or an object with a
\* "message" property, which is absent, null or an object holding "content"
\* (Undefined when the property is absent).
Message(k, content) == [k |-> k, content |-> content]

Choice(k, message) == [k |-> k, message |-> message]

Choices(k, items) == [k |-> k, items |-> items]

Envelope(k, choices) == [k |-> k, choices |-> choices]

AbsentMessage == Message("absent", Undefined)

AbsentChoice == Choice("absent", AbsentMessage)

AbsentChoices == Choices("absent", <<>>)

\* ExtractContent reading the last choice instead of the first
ExtractContentLastChoice(data) ==
  IF data.k = "null"
  THEN Throw("Cannot read properties of null (reading 'choices')")
  ELSE
    LET choices == IF data.k = "object" THEN data.choices ELSE AbsentChoices
        last == IF choices.k = "array" /\ choices.items # <<>>
                THEN choices.items[Len(choices.items)]
                ELSE IF choices.k = "string" THEN Choice("string", AbsentMessage)
                ELSE AbsentChoice
        message == IF last.k = "object" THEN last.message ELSE AbsentMessage
        content == IF message.k = "object" THEN message.content ELSE Undefined
    IN Value(IF Truthy(content) THEN content ELSE Str(<<>>))

\* data.choices?.[0]?.message?.content || ""
ExtractContent(data) ==
  IF data.k = "null"
  THEN Throw("Cannot read properties of null (reading 'choices')")
  ELSE
    LET choices == IF data.k = "object" THEN data.choices ELSE AbsentChoices
        first == IF choices.k = "array" /\ choices.items # <<>> THEN choices.items[1]
                 ELSE IF choices.k = "string" THEN Choice("string", AbsentMessage)
                 ELSE AbsentChoice
        message == IF first.k = "object" THEN first.message ELSE AbsentMessage
        content == IF message.k = "object" THEN message.content ELSE Undefined
    IN Value(IF Truthy(content) THEN content ELSE Str(<<>>))

\* The rest of the handler after `await apiResponse.json()` has settled:
\* doc.parsed is FALSE when the body is not JSON and json() rejects.
HandleJson(doc) ==
  IF ~doc.parsed THEN Catch(doc.message)
  ELSE LET c == ExtractContent(doc.data)
       IN IF c.threw THEN Catch(c.message) ELSE Respond(ContentResponse(c.value))

\* The rest of the handler after `await apiResponse.text()` has resolved.
HandleErrorText(errorText) == Respond(UpstreamErrorResponse(errorText))

\* ------------------------------------------------ what the clients can send
Fields ==
  {"apiKey", "genre", "camera", "stagePosition", "playtime", "difficulty",
   "focus", "themeKeywords", "count", "extraNotes"}

Strings(alphabet, n) == UNION {[1..k -> alphabet] : k \in 0..n}

\* a request every field of which is supplied and well typed
BaseRequest ==
  [apiKey |-> Str(<<"k">>), genre |-> Str(<<"R">>), camera |-> Str(<<"Z">>),
   stagePosition |-> Str(<<"Y">>), playtime |-> Str(<<"X">>),
   difficulty |-> Str(<<"J">>), focus |-> Str(<<"O">>),
   themeKeywords |-> Str(<<"W">>), count |-> Num(5), extraNotes |-> Str(<<"Q">>)]

CountValues ==
  {Undefined, Null, Bool(TRUE), Bool(FALSE), Big(1, 21),
   Frac(FALSE, 0, <<"5">>), Frac(FALSE, 3, <<"7">>), Frac(TRUE, 0, <<"5">>),
   Frac(FALSE, 12, <<"9">>)}
  \cup {Num(k) : k \in -2..MaxCountInput}
  \cup {Str(<<"0">>), Str(<<"1", "5">>), Str(<<"+", "7">>), Str(<<"7", ".", "9">>)}
  \cup {Str(s) : s \in Strings({" ", "-", "7", "a"}, MaxStrLen)}

FieldValues(f) ==
  CASE f = "apiKey" ->
         {Undefined, Null, Num(0), Num(123), Bool(TRUE), Bool(FALSE)}
         \cup {Str(s) : s \in Strings({" ", "k"}, MaxStrLen)}
    [] f = "count" -> CountValues
    [] f = "extraNotes" ->
         {Undefined, Null, Num(0), Num(5), Bool(TRUE)}
         \cup {Str(s) : s \in Strings({" ", "Q"}, MaxStrLen)}
    [] f = "themeKeywords" -> {Undefined, Str(<<>>), BaseRequest[f], Str(<<"I", " ">>)}
    [] OTHER -> {Undefined, Str(<<>>), Num(0), BaseRequest[f]}

FieldOrder ==
  <<"apiKey", "genre", "camera", "stagePosition", "playtime", "difficulty",
    "focus", "themeKeywords", "count", "extraNotes">>

\* one change of a request: the value v for the i-th field, or none (0)
DeviationChoices ==
  {<<0, Undefined>>}
  \cup UNION {{<<i, v>> : v \in FieldValues(FieldOrder[i]) \ {BaseRequest[FieldOrder[i]]}}
              : i \in 1..Len(FieldOrder)}

\* the changes are of different fields, in the order of the fields
Ordered(ds) ==
  \A k \in 1..(Len(ds) - 1) : ds[k][1] = 0 \/ ds[k][1] < ds[k + 1][1]

RECURSIVE Deviate(_, _)
Deviate(b, ds) ==
  IF ds = <<>> THEN b
  ELSE Deviate(IF Head(ds)[1] = 0 THEN b
               ELSE [b EXCEPT ![FieldOrder[Head(ds)[1]]] = Head(ds)[2]],
               Tail(ds))

\* the requests that differ from BaseRequest in at most k fields
Deviations(k) ==
  {Deviate(BaseRequest, ds) : ds \in {d \in [1..k -> DeviationChoices] : Ordered(d)}}

\* a few requests of every outcome, with different keys and fields
LoadRequests ==
  {BaseRequest,
   [BaseRequest EXCEPT !.apiKey = Str(<<" ", "j", " ">>), !.genre = Str(<<"H">>),
                       !.count = Str(<<"1", "5">>), !.extraNotes = Undefined],
   [BaseRequest EXCEPT !.apiKey = Str(<<" ">>)],
   [BaseRequest EXCEPT !.focus = Undefined],
   [BaseRequest EXCEPT !.extraNotes = Num(5)]}

\* ---------------------------------------------- what the upstream can do
Contents ==
  {Undefined, Null, Str(<<>>), Str(<<"H">>), Str(<<" ", "I", "\n">>), Num(0), Num(5)}

Messages ==
  {AbsentMessage, Message("null", Undefined)} \cup {Message("object", c) : c \in Contents}

ChoiceValues ==
  {Choice("null", AbsentMessage), Choice("string", AbsentMessage)}
  \cup {Choice("object", m) : m \in Messages}

ChoicesValues ==
  {AbsentChoices, Choices("null", <<>>), Choices("string", <<>>)}
  \cup {Choices("array", items) : items \in Strings(ChoiceValues, MaxChoices)}

Envelopes ==
  {Envelope(k, AbsentChoices) : k \in {"null", "number", "string", "boolean", "array"}}
  \cup {Envelope("object", c) : c \in ChoicesValues}

TextChoice(text) == Choice("object", Message("object", Str(text)))

LoadEnvelopes ==
  {Envelope("null", AbsentChoices),
   Envelope("object", AbsentChoices),
   Envelope("object", Choices("array", <<TextChoice(<<"H">>), TextChoice(<<"I">>)>>)),
   Envelope("object", Choices("array", <<TextChoice(<<"I">>)>>))}

InputsEnvelopes ==
  {Envelope("null", AbsentChoices),
   Envelope("object", Choices("array", <<TextChoice(<<"H">>)>>))}

Doc(data) == [parsed |-> TRUE, message |-> "", data |-> data]

NotJson == [parsed |-> FALSE, message |-> "Unexpected token < in JSON at position 0",
            data |-> Envelope("null", AbsentChoices)]

AllErrorTexts == {"rate limited", "", "{\"error\":{\"message\":\"Incorrect API key provided\"}}"}

TransportErrors ==
  {"request to https://api.openai.com/v1/chat/completions failed, reason: ECONNRESET"}

ReadErrors == {"Premature close"}

\* ------------------------------------------------------------------ state
VARIABLES
  scope,      \* which clients and inputs the run covers
  listening,  \* the process is alive and the listener accepts requests
  pc,         \* per request: idle, fetch, text, json, done, crashed
  body,       \* per request: req.body
  calls,      \* per request: the outbound calls issued so far
  upstream,   \* per request: what its upstream call has done so far
  replies,    \* per request: the responses sent to the client
  events      \* per request: the order of call, settled and respond

vars == <<scope, listening, pc, body, calls, upstream, replies, events>>

Requests == 1..NumRequests

Clients == IF scope = "load" THEN Requests ELSE {1}

Bodies ==
  IF scope = "inputs" THEN Deviations(MaxDeviations)
  ELSE IF scope = "load" THEN LoadRequests
  ELSE {BaseRequest}

Docs ==
  {NotJson} \cup
  {Doc(e) : e \in IF scope = "upstream" THEN Envelopes
                  ELSE IF scope = "load" THEN LoadEnvelopes
                  ELSE InputsEnvelopes}

ErrorTexts == IF scope = "inputs" THEN {"rate limited"} ELSE AllErrorTexts

NoUpstream ==
  [fetch |-> "none", read |-> "none", text |-> "", doc |-> NotJson, message |-> ""]

InitScope(s) ==
  /\ scope = s
  /\ listening = TRUE
  /\ pc = [r \in Requests |-> "idle"]
  /\ body = [r \in Requests |-> BaseRequest]
  /\ calls = [r \in Requests |-> <<>>]
  /\ upstream = [r \in Requests |-> NoUpstream]
  /\ replies = [r \in Requests |-> <<>>]
  /\ events = [r \in Requests |-> <<>>]

Init == InitScope("load")

InitInputs == InitScope("inputs")

InitUpstream == InitScope("upstream")

\* What a run of the handler of request r leaves behind: evs are the events
\* that precede it, out is what the run ends in.
Settle(r, out, evs) ==
  /\ replies' = [replies EXCEPT ![r] =
                   IF out.kind = "respond" THEN Append(@, out.reply) ELSE @]
  /\ calls' = [calls EXCEPT ![r] = @ \o out.call]
  /\ pc' = [pc EXCEPT ![r] =
              CASE out.kind = "respond" -> "done"
                [] out.kind = "await" -> "fetch"
                [] out.kind = "escape" -> "crashed"]
  /\ listening' = (listening /\ out.kind # "escape")
  /\ events' = [events EXCEPT ![r] =
                  @ \o evs \o (CASE out.kind = "respond" -> <<"respond">>
                                 [] out.kind = "await" -> <<"call">>
                                 [] out.kind = "escape" -> <<>>)]

\* a POST /api/level-blueprint arrives; the handler runs to its first await
Receive(r) ==
  /\ listening
  /\ pc[r] = "idle"
  /\ \E b \in Bodies :
       /\ body' = [body EXCEPT ![r] = b]
       /\ Settle(r, HandleRequest(b), <<>>)
  /\ UNCHANGED <<scope, upstream>>

\* the fetch promise rejects: the call could not be completed
FetchRejects(r, msg) ==
  /\ listening
  /\ pc[r] = "fetch"
  /\ upstream' = [upstream EXCEPT ![r].fetch = "rejected", ![r].message = msg]
  /\ Settle(r, Catch(msg), <<"settled">>)
  /\ UNCHANGED <<scope, body>>

\* the fetch promise resolves with a status; the handler awaits the body,
\* as text when the status is not a success and as JSON when it is
FetchResolves(r, ok) ==
  /\ listening
  /\ pc[r] = "fetch"
  /\ upstream' = [upstream EXCEPT ![r].fetch = IF ok THEN "ok" ELSE "notok"]
  /\ pc' = [pc EXCEPT ![r] = IF ok THEN "json" ELSE "text"]
  /\ events' = [events EXCEPT ![r] = Append(@, "settled")]
  /\ UNCHANGED <<scope, listening, body, calls, replies>>

\* apiResponse.text() resolves with the raw body of an upstream failure
TextResolves(r, errorText) ==
  /\ listening
  /\ pc[r] = "text"
  /\ upstream' = [upstream EXCEPT ![r].read = "text", ![r].text = errorText]
  /\ Settle(r, HandleErrorText(errorText), <<>>)
  /\ UNCHANGED <<scope, body>>

\* apiResponse.json() settles: the body parses to doc.data, or it is not JSON
JsonSettles(r, doc) ==
  /\ listening
  /\ pc[r] = "json"
  /\ upstream' = [upstream EXCEPT ![r].read = "json", ![r].doc = doc]
  /\ Settle(r, HandleJson(doc), <<>>)
  /\ UNCHANGED <<scope, body>>

\* reading the body fails: text() or json() rejects with a transport error
ReadFails(r, msg) ==
  /\ listening
  /\ pc[r] \in {"text", "json"}
  /\ upstream' = [upstream EXCEPT ![r].read = "failed", ![r].message = msg]
  /\ Settle(r, Catch(msg), <<>>)
  /\ UNCHANGED <<scope, body>>

\* the exchange is over; the next request of this client starts afresh
Close(r) ==
  /\ pc[r] = "done"
  /\ pc' = [pc EXCEPT ![r] = "idle"]
  /\ body' = [body EXCEPT ![r] = BaseRequest]
  /\ calls' = [calls EXCEPT ![r] = <<>>]
  /\ upstream' = [upstream EXCEPT ![r] = NoUpstream]
  /\ replies' = [replies EXCEPT ![r] = <<>>]
  /\ events' = [events EXCEPT ![r] = <<>>]
  /\ UNCHANGED <<scope, listening>>

Next ==
  \/ \E r \in Clients : Receive(r)
  \/ \E r \in Clients, msg \in TransportErrors : FetchRejects(r, msg)
  \/ \E r \in Clients, ok \in BOOLEAN : FetchResolves(r, ok)
  \/ \E r \in Clients, errorText \in ErrorTexts : TextResolves(r, errorText)
  \/ \E r \in Clients, doc \in Docs : JsonSettles(r, doc)
  \/ \E r \in Clients, msg \in ReadErrors : ReadFails(r, msg)
  \/ \E r \in Clients : Close(r)

Spec == Init /\ [][Next]_vars

SpecInputs == InitInputs /\ [][Next]_vars

SpecUpstream == InitUpstream /\ [][Next]_vars

\* ============================================================ properties
Contains(hay, needle) ==
  \E k \in 0..(Len(hay) - Len(needle)) : SubSeq(hay, k + 1, k + Len(needle)) = needle

StartsWith(hay, prefix) ==
  Len(hay) >= Len(prefix) /\ SubSeq(hay, 1, Len(prefix)) = prefix

\* the request of client r has been received: body[r] is its body
Received(r) == pc[r] # "idle"

\* the apiKey is absent, empty or white space only
BlankKey(apiKey) ==
  \/ apiKey.t = "undefined"
  \/ apiKey.t = "string" /\ \A k \in 1..Len(apiKey.s) : apiKey.s[k] \in WhiteSpace

\* the apiKey is a string with a character that is not white space
UsableKey(apiKey) ==
  apiKey.t = "string" /\ \E k \in 1..Len(apiKey.s) : apiKey.s[k] \notin WhiteSpace

\* the sole reply to request r
Reply(r) == replies[r][1]

\* the prompt asks for n blueprints
AsksFor(prompt, n) ==
  StartsWith(prompt, <<"Generate", " ">> \o NatToString(n) \o <<" ", "level blueprints.">>)

\* C1: a request whose apiKey is absent, empty or white space only, whatever
\* its other fields, is answered 400 with error "No API key provided" and a
\* message, and no upstream call is made for it.
C1_BlankKeyRejected ==
  \A r \in Requests :
    Received(r) /\ BlankKey(body[r].apiKey) =>
      /\ pc[r] = "done"
      /\ Len(replies[r]) = 1
      /\ Reply(r).status = 400
      /\ Reply(r).keys = {"error", "message"}
      /\ Reply(r).error = "No API key provided"
      /\ Reply(r).message # ""
      /\ calls[r] = <<>>

\* a white-space-only key together with a missing required field
C1_Witness ==
  \E r \in Requests :
    /\ pc[r] = "done"
    /\ body[r].apiKey = Str(<<" ", " ">>)
    /\ body[r].genre = Undefined
    /\ Reply(r).status = 400

PassesValidation(b) ==
  UsableKey(b.apiKey) /\ \A f \in RequiredFields : Truthy(b[f])

\* extraNotes is absent, falsy or a string: prompt assembly can trim it
NotesUsable(b) == ~Truthy(b.extraNotes) \/ b.extraNotes.t = "string"

\* the request is valid whatever its count is
OtherwiseValid(b) ==
  /\ UsableKey(b.apiKey)
  /\ \A f \in RequiredFields \ {"count"} : Truthy(b[f])
  /\ NotesUsable(b)

\* request r is processed with the count n: its prompt was sent upstream and
\* asks for n blueprints
ProcessedWith(r, n) == Len(calls[r]) = 1 /\ AsksFor(calls[r][1].user, n)

\* counts that the handler accepts, with the count they are normalised to
NormalizedCases ==
  {<<Num(-1), 1>>, <<Num(-2), 1>>, <<Str(<<"a">>), 1>>, <<Str(<<"a", "7">>), 1>>,
   <<Str(<<"0">>), 1>>, <<Num(15), 10>>, <<Num(5), 5>>, <<Str(<<"7">>), 7>>}

\* the two further cases of the count normalisation as the specification
\* states it: the number 0 and an absent count
FalsyCountCases == {<<Num(0), 1>>, <<Undefined, 1>>}

\* C3 as stated: on an otherwise valid request a count of 0, a negative, a
\* non-numeric or an absent count is normalised to 1, 15 to 10, 5 to 5 and
\* "7" to 7, and the request is processed with the normalised count.
C3_AsStated ==
  \A r \in Requests : \A c \in NormalizedCases \cup FalsyCountCases :
    Received(r) /\ OtherwiseValid(body[r]) /\ body[r].count = c[1] =>
      ProcessedWith(r, c[2])

\* C3 as amended: a negative or non-numeric count (and the string "0") is
\* normalised to 1, 15 to 10, 5 to 5 and "7" to 7, and the request is
\* processed with the normalised count; a count that is the number 0 or is
\* absent is never normalised: the request is answered 400 "Missing required
\* fields" and no prompt is sent upstream.
C3_CountNormalization ==
  \A r \in Requests :
    Received(r) /\ OtherwiseValid(body[r]) =>
      /\ \A c \in NormalizedCases : body[r].count = c[1] => ProcessedWith(r, c[2])
      /\ \A c \in FalsyCountCases : body[r].count = c[1] =>
           /\ pc[r] = "done"
           /\ calls[r] = <<>>
           /\ Reply(r).status = 400
           /\ Reply(r).error = "Missing required fields"

\* a count of 15 has been sent upstream as 10
C3_Witness ==
  \E r \in Requests :
    /\ pc[r] = "fetch"
    /\ body[r] = [BaseRequest EXCEPT !.count = Num(15)]
    /\ ProcessedWith(r, 10)

\* C4: whatever the count of a request that passes validation, the count in
\* the prompt sent upstream is an integer in 1..10: 1 when parsing the count
\* as a base-10 integer fails or gives a non-positive value, and the smaller
\* of the parsed value and 10 otherwise.
C4_CountInRange ==
  \A r \in Requests : \A k \in 1..Len(calls[r]) :
    LET p == ParseInt(body[r].count)
        n == IF p.nan \/ p.v <= 0 THEN 1 ELSE IF p.v > 10 THEN 10 ELSE p.v
    IN /\ n \in 1..10
       /\ AsksFor(calls[r][k].user, n)
       /\ \A m \in 0..(MaxCountInput + 100) : AsksFor(calls[r][k].user, m) => m \in 1..10

\* a fractional count above ten has been sent upstream as 10
C4_Witness ==
  \E r \in Requests :
    /\ Len(calls[r]) = 1
    /\ body[r].count = Frac(FALSE, 12, <<"9">>)
    /\ AsksFor(calls[r][1].user, 10)

\* the values a request supplies for the fields that are interpolated as
\* they are
VerbatimFields ==
  {"genre", "camera", "stagePosition", "playtime", "difficulty", "focus"}

\* extraNotes is absent or is an empty or white-space-only string
BlankNotes(extraNotes) ==
  \/ ~Truthy(extraNotes)
  \/ extraNotes.t = "string" /\ \A k \in 1..Len(extraNotes.s) : extraNotes.s[k] \in WhiteSpace

\* what C7 says of a prompt, but for the extraNotes that are not blank
PromptCarriesFields(b, prompt) ==
  /\ \A f \in VerbatimFields : Contains(prompt, JSToString(b[f]))
  /\ \E n \in 1..10 : n = (LET p == ParseInt(b.count)
                           IN IF p.nan \/ p.v <= 0 THEN 1
                              ELSE IF p.v > 10 THEN 10 ELSE p.v)
                      /\ AsksFor(prompt, n)
  /\ Truthy(b.themeKeywords) => Contains(prompt, JSToString(b.themeKeywords))
  /\ b.themeKeywords = Undefined => Contains(prompt, <<"n", "o", "n", "e">>)
  /\ BlankNotes(b.extraNotes) =>
       Contains(prompt, <<"N", "o", " ", "a", "d", "d", "i", "t", "i", "o", "n", "a", "l",
                          " ", "n", "o", "t", "e", "s", ".">>)

\* C7 as stated: the prompt sent upstream contains the literal value of every
\* supplied field, extraNotes as supplied included, and the normalised count,
\* with the sentinels for blank extraNotes and absent themeKeywords.
C7_AsStated ==
  \A r \in Requests : \A k \in 1..Len(calls[r]) :
    /\ PromptCarriesFields(body[r], calls[r][k].user)
    /\ ~BlankNotes(body[r].extraNotes) => Contains(calls[r][k].user, body[r].extraNotes.s)

\* C7 as amended: the prompt sent upstream contains the literal value of
\* genre, camera, stagePosition, playtime, difficulty, focus and
\* themeKeywords, the normalised count, and extraNotes with its leading and
\* trailing white space removed (extraNotes as supplied when it has none);
\* blank extraNotes give "No additional notes.", absent themeKeywords "none".
C7_PromptCarriesFields ==
  \A r \in Requests : \A k \in 1..Len(calls[r]) :
    /\ PromptCarriesFields(body[r], calls[r][k].user)
    /\ ~BlankNotes(body[r].extraNotes) =>
         LET notes == body[r].extraNotes.s
             first == CHOOSE i \in 1..Len(notes) :
                        notes[i] \notin WhiteSpace
                        /\ \A j \in 1..(i - 1) : notes[j] \in WhiteSpace
             last == CHOOSE i \in 1..Len(notes) :
                       notes[i] \notin WhiteSpace
                       /\ \A j \in (i + 1)..Len(notes) : notes[j] \in WhiteSpace
         IN Contains(calls[r][k].user, <<"\n">> \o SubSeq(notes, first, last) \o <<"\n">>)

\* extraNotes with a leading space have been sent upstream without it, and
\* absent themeKeywords as "none"
C7_Witness ==
  \E r \in Requests :
    /\ Len(calls[r]) = 1
    /\ body[r].extraNotes = Str(<<" ", "Q">>)
    /\ body[r].themeKeywords = Undefined
    /\ Contains(calls[r][1].user, <<"\n", "Q", "\n">>)
    /\ Contains(calls[r][1].user, <<" ", "n", "o", "n", "e", "\n">>)

\* the upstream call of request r succeeded and its body parsed as JSON
UpstreamSuccess(r) ==
  /\ pc[r] \in {"done", "crashed"}
  /\ upstream[r].fetch = "ok"
  /\ upstream[r].read = "json"
  /\ upstream[r].doc.parsed

\* the envelope holds a text at choices[0].message.content
WellFormed(data) ==
  /\ data.k = "object"
  /\ data.choices.k = "array"
  /\ data.choices.items # <<>>
  /\ data.choices.items[1].k = "object"
  /\ data.choices.items[1].message.k = "object"
  /\ data.choices.items[1].message.content.t = "string"

\* the envelope has no choices[0].message.content: it is not an object, or
\* a link of the path is absent
PathMissing(data) ==
  \/ data.k # "object"
  \/ data.choices.k # "array"
  \/ data.choices.items = <<>>
  \/ data.choices.items[1].k # "object"
  \/ data.choices.items[1].message.k # "object"
  \/ data.choices.items[1].message.content = Undefined

\* C5: an upstream success whose envelope lacks the message-content path (no
\* choices, empty choices, a first choice without message, a message without
\* content, an envelope that is not an object) is answered 200 with the
\* content "", never with an error.
C5_MalformedSuccessGivesEmptyContent ==
  \A r \in Requests :
    UpstreamSuccess(r) /\ PathMissing(upstream[r].doc.data) =>
      /\ pc[r] = "done"
      /\ replies[r] = <<Response(200, {"content"}, "", "", "", Str(<<>>))>>

\* C6: an upstream success with a well-formed envelope is answered 200 with
\* a body whose content is the text of choices[0].message.content, unchanged,
\* and never the text of another choice.
C6_ContentRelayed ==
  \A r \in Requests :
    UpstreamSuccess(r) /\ WellFormed(upstream[r].doc.data) =>
      /\ pc[r] = "done"
      /\ Len(replies[r]) = 1
      /\ Reply(r).status = 200
      /\ Reply(r).keys = {"content"}
      /\ Reply(r).content = upstream[r].doc.data.choices.items[1].message.content

\* a text with white space at both ends, followed by a second choice with
\* another text, has been relayed as it is
C6_Witness ==
  \E r \in Requests :
    /\ UpstreamSuccess(r)
    /\ Len(upstream[r].doc.data.choices.items) = 2
    /\ upstream[r].doc.data.choices.items[1] = TextChoice(<<" ", "I", "\n">>)
    /\ upstream[r].doc.data.choices.items[2] = TextChoice(<<"H">>)
    /\ Reply(r).content = Str(<<" ", "I", "\n">>)

\* the apiKey makes the first validation step fail
NoCredential(b) ==
  ~Truthy(b.apiKey) \/ (b.apiKey.t = "string" /\ ~UsableKey(b.apiKey))

\* C8: every failure of a request is answered with exactly one response, a
\* JSON object with an error key: 400 for the two validation failures, 500
\* "OpenAI API error" with the raw upstream body as detail for an upstream
\* non-success, 500 "Server error" with the failure message as detail for a
\* transport failure or an unexpected exception.  No failure escapes the
\* handler or leaves a finished request unanswered.
C8_FailuresAnswered ==
  /\ listening
  /\ \A r \in Requests :
       LET b == body[r]
           u == upstream[r]
           ServerError(msg) ==
             /\ Reply(r).status = 500
             /\ Reply(r).keys = {"error", "detail"}
             /\ Reply(r).error = "Server error"
             /\ Reply(r).detail = msg
       IN /\ pc[r] # "crashed"
          /\ Len(replies[r]) = IF pc[r] = "done" THEN 1 ELSE 0
          /\ pc[r] = "done" =>
               /\ Reply(r).status \in {200, 400, 500}
               /\ Reply(r).status # 200 => "error" \in Reply(r).keys /\ Reply(r).error # ""
               /\ Reply(r).status = 200 => UpstreamSuccess(r) /\ u.doc.data.k # "null"
               /\ NoCredential(b) =>
                    Reply(r).status = 400 /\ Reply(r).error = "No API key provided"
               /\ UsableKey(b.apiKey) /\ ~PassesValidation(b) =>
                    Reply(r).status = 400 /\ Reply(r).error = "Missing required fields"
               /\ Truthy(b.apiKey) /\ b.apiKey.t # "string" =>
                    ServerError("apiKey.trim is not a function")
               /\ PassesValidation(b) /\ ~NotesUsable(b) =>
                    ServerError("extraNotes.trim is not a function")
               /\ u.fetch = "notok" /\ u.read = "text" =>
                    /\ Reply(r).status = 500
                    /\ Reply(r).keys = {"error", "detail"}
                    /\ Reply(r).error = "OpenAI API error"
                    /\ Reply(r).detail = u.text
               /\ u.fetch = "rejected" \/ u.read = "failed" => ServerError(u.message)
               /\ u.read = "json" /\ ~u.doc.parsed => ServerError(u.doc.message)
               /\ UpstreamSuccess(r) /\ u.doc.data.k = "null" =>
                    ServerError("Cannot read properties of null (reading 'choices')")

\* an apiKey that is a number has been answered 500 "Server error"
C8_Witness ==
  \E r \in Requests :
    /\ pc[r] = "done"
    /\ body[r].apiKey = Num(123)
    /\ Reply(r).error = "Server error"
    /\ Reply(r).detail = "apiKey.trim is not a function"

\* a body that is not JSON has been answered 500 "Server error"
C8_WitnessUnparseable ==
  \E r \in Requests :
    /\ pc[r] = "done"
    /\ upstream[r].read = "json" /\ ~upstream[r].doc.parsed
    /\ Reply(r).error = "Server error"

\* in the events of a request, the response comes after the call has settled
RespondsAfterSettled(r) ==
  \A k \in 1..Len(events[r]) :
    events[r][k] = "respond" => \E j \in 1..(k - 1) : events[r][j] = "settled"

\* C9 as stated: a request issues at most one upstream call, and exactly one
\* when it passes validation; nothing is retried; the response to a request
\* that passes validation comes only after its call has completed or failed.
C9_AsStated ==
  \A r \in Requests :
    /\ Len(calls[r]) <= 1
    /\ Received(r) /\ PassesValidation(body[r]) =>
         /\ Len(calls[r]) = 1
         /\ RespondsAfterSettled(r)

\* C9 as amended: a request issues at most one upstream call, and exactly one
\* when it passes validation and its extraNotes is absent, falsy or a string;
\* nothing is retried, and the response to such a request comes only after
\* its call has completed or failed.  A request that passes validation with
\* a truthy extraNotes that is not a string issues no call and is answered
\* 500 "Server error" at once.
C9_OneCallPerRequest ==
  \A r \in Requests :
    /\ Len(calls[r]) <= 1
    /\ Len(calls[r]) = 1 => PassesValidation(body[r])
    /\ Received(r) /\ PassesValidation(body[r]) /\ NotesUsable(body[r]) =>
         /\ Len(calls[r]) = 1
         /\ RespondsAfterSettled(r)
         /\ \E k \in 0..3 : events[r] = SubSeq(<<"call", "settled", "respond">>, 1, k)
    /\ Received(r) /\ PassesValidation(body[r]) /\ ~NotesUsable(body[r]) =>
         /\ calls[r] = <<>>
         /\ events[r] = <<"respond">>
         /\ Reply(r).status = 500
         /\ Reply(r).error = "Server error"

\* an upstream failure has been relayed after one call, while another
\* request is still waiting for its own
C9_Witness ==
  \E r, q \in Requests :
    /\ pc[r] = "done"
    /\ upstream[r].fetch = "notok"
    /\ Len(calls[r]) = 1
    /\ events[r] = <<"call", "settled", "respond">>
    /\ pc[q] = "fetch"

\* C10: under every interleaving of concurrent requests, the credential of
\* an outbound call is the trimmed apiKey of the request that issued it, its
\* prompt depends on that request's fields only, the response depends on
\* that request and on the outcome of its own call only, and the failure of
\* a request neither changes another request nor stops the listener.
C10_RequestsIndependent ==
  /\ listening
  /\ \A r \in Requests :
       /\ pc[r] # "crashed"
       /\ \A k \in 1..Len(calls[r]) :
            /\ UsableKey(body[r].apiKey)
            /\ calls[r][k].authorization =
                 <<"Bearer", " ">>
                 \o SelectSeq(body[r].apiKey.s, LAMBDA c : c \notin WhiteSpace)
  /\ \A r, q \in Requests :
       Received(r) /\ Received(q) /\ body[r] = body[q] =>
         /\ calls[r] # <<>> /\ calls[q] # <<>> => calls[r] = calls[q]
         /\ pc[r] = "done" /\ pc[q] = "done" /\ upstream[r] = upstream[q] =>
              replies[r] = replies[q]

\* two requests with different keys: one has failed upstream, the other has
\* received its content
C10_Witness ==
  \E r, q \in Requests :
    /\ pc[r] = "done" /\ pc[q] = "done"
    /\ body[r].apiKey # body[q].apiKey
    /\ Len(calls[r]) = 1 /\ Len(calls[q]) = 1
    /\ calls[r][1].authorization # calls[q][1].authorization
    /\ Reply(r).status = 500
    /\ Reply(q).status = 200

====
